---- MODULE Spec2Model ----
(***************************************************************************)
(* A model of log-revolve (src/src/main.rs): the line loop of start(), the *)
(* FileWriter that routes lines to channels, and the FileHandle that owns  *)
(* one rotating file.  Text is a sequence of characters, a path a sequence *)
(* of path components, wall-clock time a number of ticks.                  *)
(***************************************************************************)
EXTENDS Integers, Sequences, FiniteSets, TLC

VARIABLES
    now,        \* the wall clock (Local::now()), in ticks
    io,         \* the environment: "ok", or "fail" once opens and writes fail
    pc,         \* start(): "start" | "loop" | "failed"
    stdin_eof,  \* stdin has reached end of stream
    nread,      \* lines read so far by the loop of start()
    writer,     \* the FileWriter: current_channel_name, inapt_file_handle, file_handles
    fs,         \* the file system: path of a regular file -> its bytes
    last,       \* history: the last call of FileWriter::write
    routed,     \* history: destination -> the lines handed to its write_line
    openCalls,  \* history: every call of open_file
    rotations,  \* history: destination -> how often update_current_file rotated
    cli_options \* the command line (CliOptions::from_args())

vars == <<now, io, pc, stdin_eof, nread, writer, fs, last, routed, openCalls, rotations,
          cli_options>>

---------------------------------------------------------------------------
(* Bounds and constants *)

\* chrono: hour() is 0..23
HoursPerDay == 24
\* resolution of the clock: ticks in Duration::hours(1)
TicksPerHour == 2
\* the hour of day 0 at which the clock starts
StartHour == 22
\* how far the clock runs
MaxTicks == 6
\* how many lines the loop reads
MaxLines == 4

TicksPerDay == HoursPerDay * TicksPerHour
StartTime == StartHour * TicksPerHour

---------------------------------------------------------------------------
(* Text *)

\* characters that str::trim_end removes
Whitespace == {"SP", "LF"}

\* --log-dir
LogDirName == <<"l", "o", "g", "s">>
\* --accepted-log-channels a,/r : a plain name and an absolute one
ChanA == <<"a">>
ChanR == <<"/", "r">>
\* --inapt-file-name, at its default
InaptName == <<"i", "n", "a", "p", "t">>

\* the lines stdin delivers; one without a terminator is the last before EOF
Lines ==
    { <<"a", "LF">>, <<"a", "SP", "LF">>, <<"/", "r", "LF">>,
      <<"x", "LF">>, <<"x">> }

\* read_line at end of stream leaves the line empty
EofLine == <<>>

RECURSIVE trim_end(_)
trim_end(s) ==
    IF s = <<>> THEN <<>>
    ELSE IF s[Len(s)] \in Whitespace THEN trim_end(SubSeq(s, 1, Len(s) - 1))
    ELSE s

\* Option<String>
None == <<>>
Some(c) == <<c>>

---------------------------------------------------------------------------
(* Time *)

date(t) == t \div TicksPerDay
hour(t) == (t \div TicksPerHour) % HoursPerDay

\* DateTime::format("%Y-%m-%d-%H-%M-%S"): the date, the hour, minutes and seconds
FormatTime(t) == <<date(t), hour(t), t % TicksPerHour>>

\* a faulty variant: aligned to the day, and_hms(0, 0, 0)
get_daily_aligned_date(t) == date(t) * TicksPerDay

get_hourly_aligned_date(t) == date(t) * TicksPerDay + hour(t) * TicksPerHour

---------------------------------------------------------------------------
(* Paths and files *)

\* a path component: a directory name, or a file name "{name}_{stamp}.log"
DirComp(name) == [name |-> name, stamp |-> <<>>]
FileComp(channel_name, t) == [name |-> channel_name, stamp |-> FormatTime(t)]

\* Path::is_absolute of one pushed piece: the text starts with "/"
IsAbsolute(name) == name # <<>> /\ name[1] = "/"

\* the directories that exist: the root and the log directory
Root == <<>>
LogDir == <<DirComp(LogDirName)>>
Dirs == {Root, LogDir}

Parent(path) == SubSeq(path, 1, Len(path) - 1)

\* the command line: the log directory as a path, the channel list split at ","
CliOptions ==
    [log_dir |-> LogDir,
     accepted_log_channels |-> <<ChanA, ChanR>>,
     inapt_file_name |-> InaptName]

\* PathBuf::push: an absolute piece replaces the buffer
Push(buf, piece) ==
    IF piece # <<>> /\ IsAbsolute(piece[1].name) THEN piece ELSE buf \o piece

\* the place of the last "/" after the first character of a name, 0 for none
LastSeparator(name) ==
    IF \A k \in 2..Len(name) : name[k] # "/" THEN 0
    ELSE CHOOSE k \in 2..Len(name) :
            name[k] = "/" /\ \A j \in (k + 1)..Len(name) : name[j] # "/"

\* the file name as path components: what stands before the last inner "/"
\* names a directory, the rest with the stamp names the file
PieceAt(channel_name, t, k) ==
    IF k = 0 THEN <<FileComp(channel_name, t)>>
    ELSE <<DirComp(SubSeq(channel_name, 1, k - 1)),
           FileComp(SubSeq(channel_name, k + 1, Len(channel_name)), t)>>

Piece(channel_name, t) == PieceAt(channel_name, t, LastSeparator(channel_name))

generate_file_path(log_dir, channel_name, t) ==
    Push(Push(<<>>, log_dir), Piece(channel_name, t))

\* a faulty variant: truncate(true), a file that is there is emptied
open_file_truncate(files, path, env) ==
    IF env = "ok" /\ path # <<>> /\ Parent(path) \in Dirs /\ path \notin Dirs
    THEN [ok |-> TRUE, fs |-> (path :> <<>>) @@ files]
    ELSE [ok |-> FALSE, fs |-> files]

\* OpenOptions create + append, no truncate: the file is created empty when it
\* is not there and kept as it is when it is; the parent must be a directory
open_file(files, path, env) ==
    IF env = "ok" /\ path # <<>> /\ Parent(path) \in Dirs /\ path \notin Dirs
    THEN [ok |-> TRUE,
          fs |-> IF path \in DOMAIN files THEN files ELSE (path :> <<>>) @@ files]
    ELSE [ok |-> FALSE, fs |-> files]

---------------------------------------------------------------------------
(* FileHandle.  A value computed once is handed on as a parameter, so every    *)
(* function of the source is a short chain of operators.                      *)

NoHandle == [file_name |-> <<>>, log_dir |-> <<>>, last_reopened |-> 0, current_file |-> <<>>]

\* an entry of openCalls: who called open_file, with which path, when
OpenCall(channel_name, path, t) == [by |-> channel_name, path |-> path, at |-> t]

\* create, from the opened file on: the struct literal
create_handle(channel_name, t, path, file) ==
    [ok |-> file.ok,
     self |-> IF file.ok
              THEN [file_name |-> channel_name,
                    last_reopened |-> t,
                    log_dir |-> path,
                    current_file |-> path]
              ELSE NoHandle,
     fs |-> file.fs,
     opened |-> {OpenCall(channel_name, path, t)}]

\* create, from the path on: open_file(path)?
create_at(channel_name, t, path, files, env) ==
    create_handle(channel_name, t, path, open_file(files, path, env))

create(log_dir, channel_name, t, files, env) ==
    create_at(channel_name, t,
              generate_file_path(log_dir, channel_name, get_hourly_aligned_date(t)),
              files, env)

\* a faulty variant: condition (a) with "or" for "and"
new_file_needed_either(self, t) ==
    LET date_is_after == date(t) > date(self.last_reopened)
        hour_is_after == hour(t) > hour(self.last_reopened)
        more_than_hour_passed == t - self.last_reopened > TicksPerHour
    IN  IF date_is_after \/ hour_is_after THEN TRUE
        ELSE IF more_than_hour_passed THEN TRUE
        ELSE FALSE

new_file_needed(self, t) ==
    LET date_is_after == date(t) > date(self.last_reopened)
        hour_is_after == hour(t) > hour(self.last_reopened)
        more_than_hour_passed == t - self.last_reopened > TicksPerHour
    IN  IF date_is_after /\ hour_is_after THEN TRUE
        ELSE IF more_than_hour_passed THEN TRUE
        ELSE FALSE

\* update_current_file, from the opened file on: self.current_file = ...?
reopen_file(reopened, t, path_str, file) ==
    [ok |-> file.ok,
     self |-> IF file.ok THEN [reopened EXCEPT !.current_file = path_str] ELSE reopened,
     fs |-> file.fs,
     opened |-> {OpenCall(reopened.file_name, path_str, t)},
     rotated |-> TRUE]

\* update_current_file, from the stored timestamp on: the path and open_file
reopen(reopened, t, files, env) ==
    reopen_file(reopened, t,
                generate_file_path(reopened.log_dir, reopened.file_name,
                                   reopened.last_reopened),
                open_file(files,
                          generate_file_path(reopened.log_dir, reopened.file_name,
                                             reopened.last_reopened),
                          env))

update_current_file(self, t, files, env) ==
    IF new_file_needed(self, t)
    THEN reopen([self EXCEPT !.last_reopened = get_hourly_aligned_date(t)], t, files, env)
    ELSE [ok |-> TRUE, self |-> self, fs |-> files, opened |-> {}, rotated |-> FALSE]

\* File::write_all: the bytes go to the end of the open file, or the write fails
write_all(files, path, bytes, env) ==
    IF env = "ok"
    THEN [ok |-> TRUE, fs |-> [files EXCEPT ![path] = @ \o bytes]]
    ELSE [ok |-> FALSE, fs |-> files]

\* write_line's result after write_all
written_line(updated, written) ==
    [ok |-> written.ok, self |-> updated.self, fs |-> written.fs,
     opened |-> updated.opened, rotated |-> updated.rotated,
     wrote |-> IF written.ok THEN Some(updated.self.current_file) ELSE None]

\* a faulty variant: the line is written without its trailing whitespace
append_trimmed(updated, line, env) ==
    IF ~updated.ok
    THEN [ok |-> FALSE, self |-> updated.self, fs |-> updated.fs,
          opened |-> updated.opened, rotated |-> updated.rotated, wrote |-> None]
    ELSE written_line(updated,
                      write_all(updated.fs, updated.self.current_file, trim_end(line), env))

\* write_line after update_current_file: "?" returns its error, else write_all
append_line(updated, line, env) ==
    IF ~updated.ok
    THEN [ok |-> FALSE, self |-> updated.self, fs |-> updated.fs,
          opened |-> updated.opened, rotated |-> updated.rotated, wrote |-> None]
    ELSE written_line(updated,
                      write_all(updated.fs, updated.self.current_file, line, env))

write_line(self, line, t, files, env) ==
    append_line(update_current_file(self, t, files, env), line, env)

---------------------------------------------------------------------------
(* FileWriter *)

NoWriter == [current_channel_name |-> None, inapt_file_handle |-> NoHandle, file_handles |-> <<>>]

\* a destination: Some(channel) for a channel's handle, None for the inapt handle
DestinationsOf(opts) == {None} \cup {Some(opts.accepted_log_channels[i]) :
                                        i \in 1..Len(opts.accepted_log_channels)}
Destinations == DestinationsOf(CliOptions)

HandleOf(self, dest) ==
    IF dest = None THEN self.inapt_file_handle ELSE self.file_handles[dest[1]]

RECURSIVE create_handles(_, _, _, _, _, _)

\* a faulty variant: a channel whose create failed is left out and the loop goes on
inserted_skip(options, i, made, t, env, handle) ==
    IF ~handle.ok
    THEN create_handles(options, i + 1,
                        [file_handles |-> made.file_handles,
                         opened |-> made.opened \cup handle.opened],
                        t, handle.fs, env)
    ELSE create_handles(options, i + 1,
                        [file_handles |-> (options.accepted_log_channels[i] :> handle.self)
                                              @@ made.file_handles,
                         opened |-> made.opened \cup handle.opened],
                        t, handle.fs, env)

\* with_options' loop, one turn from the created handle on: "?" and insert
inserted(options, i, made, t, env, handle) ==
    IF ~handle.ok
    THEN [ok |-> FALSE, file_handles |-> made.file_handles, fs |-> handle.fs,
          opened |-> made.opened \cup handle.opened]
    ELSE create_handles(options, i + 1,
                        [file_handles |-> (options.accepted_log_channels[i] :> handle.self)
                                          @@ made.file_handles,
                         opened |-> made.opened \cup handle.opened],
                        t, handle.fs, env)

\* the loop over accepted_channels; made: the map so far (and the opens so far)
create_handles(options, i, made, t, files, env) ==
    IF i > Len(options.accepted_log_channels)
    THEN [ok |-> TRUE, file_handles |-> made.file_handles, fs |-> files,
          opened |-> made.opened]
    ELSE inserted(options, i, made, t, env,
                  create(options.log_dir, options.accepted_log_channels[i], t, files, env))

\* with_options, from the inapt handle on: the struct literal
new_writer(made, inapt) ==
    IF ~inapt.ok
    THEN [ok |-> FALSE, self |-> NoWriter, fs |-> inapt.fs,
          opened |-> made.opened \cup inapt.opened]
    ELSE [ok |-> TRUE,
          self |-> [current_channel_name |-> None,
                    inapt_file_handle |-> inapt.self,
                    file_handles |-> made.file_handles],
          fs |-> inapt.fs,
          opened |-> made.opened \cup inapt.opened]

\* with_options, from the channels' handles on: the inapt handle
with_inapt(options, t, env, made) ==
    IF ~made.ok
    THEN [ok |-> FALSE, self |-> NoWriter, fs |-> made.fs, opened |-> made.opened]
    ELSE new_writer(made, create(options.log_dir, options.inapt_file_name, t, made.fs, env))

with_options(options, t, files, env) ==
    with_inapt(options, t, env,
               create_handles(options, 1, [file_handles |-> <<>>, opened |-> {}],
                              t, files, env))

\* a faulty variant: the payload always goes to the inapt handle
lookup_inapt(self, channel) == None

\* file_handles.get_mut(channel).unwrap_or(&mut inapt_file_handle)
lookup(self, channel) ==
    IF channel \in DOMAIN self.file_handles THEN Some(channel) ELSE None

\* a faulty variant: the handle written to is stored as the inapt handle too
put_back_both(self, dest, done) ==
    [ok |-> done.ok,
     self |-> IF dest = None
              THEN [self EXCEPT !.inapt_file_handle = done.self]
              ELSE [self EXCEPT !.file_handles[dest[1]] = done.self,
                                !.inapt_file_handle = done.self],
     fs |-> done.fs, opened |-> done.opened, rotated |-> done.rotated,
     wrote |-> done.wrote, dest |-> Some(dest)]

\* the handle after write_line, put back where it came from
put_back(self, dest, done) ==
    [ok |-> done.ok,
     self |-> IF dest = None
              THEN [self EXCEPT !.inapt_file_handle = done.self]
              ELSE [self EXCEPT !.file_handles[dest[1]] = done.self],
     fs |-> done.fs, opened |-> done.opened, rotated |-> done.rotated,
     wrote |-> done.wrote, dest |-> Some(dest)]

\* handle.write_line(message) on the handle of a destination
write_to(self, dest, message, t, files, env) ==
    put_back(self, dest, write_line(HandleOf(self, dest), message, t, files, env))

\* a faulty variant: the slot is given the line as read, not the trimmed name
write_select_raw(self, message, t, files, env) ==
    IF trim_end(message) \in DOMAIN self.file_handles
    THEN [ok |-> TRUE,
          self |-> [self EXCEPT !.current_channel_name = Some(message)],
          fs |-> files, opened |-> {}, rotated |-> FALSE,
          wrote |-> None, dest |-> None]
    ELSE write_to(self, None, message, t, files, env)

\* the None arm: a known name is remembered, any other line goes to inapt
write_select(self, message, t, files, env) ==
    IF trim_end(message) \in DOMAIN self.file_handles
    THEN [ok |-> TRUE,
          self |-> [self EXCEPT !.current_channel_name = Some(trim_end(message))],
          fs |-> files, opened |-> {}, rotated |-> FALSE,
          wrote |-> None, dest |-> None]
    ELSE write_to(self, None, message, t, files, env)

\* a faulty variant: the slot is not cleared after the payload
keep_pending(done) == done

\* the Some arm after write_line: "?" returns the error before the slot is
\* cleared; after a write that succeeded current_channel_name = None
clear_pending(done) ==
    IF done.ok THEN [done EXCEPT !.self.current_channel_name = None] ELSE done

\* the Some arm: the line goes to the pending channel
write_payload(self, message, t, files, env) ==
    clear_pending(write_to(self, lookup(self, self.current_channel_name[1]),
                           message, t, files, env))

write(self, message, t, files, env) ==
    IF self.current_channel_name = None
    THEN write_select(self, message, t, files, env)
    ELSE write_payload(self, message, t, files, env)

---------------------------------------------------------------------------
(* The process *)

NoCall == [state |-> "NONE", line |-> <<>>, ok |-> TRUE, at |-> 0,
           dest |-> None, wrote |-> None, rotated |-> FALSE]

Init ==
    /\ now = StartTime
    /\ io = "ok"
    /\ pc = "start"
    /\ stdin_eof = FALSE
    /\ nread = 0
    /\ writer = NoWriter
    /\ fs = <<>>
    /\ last = NoCall
    /\ routed = [d \in Destinations |-> <<>>]
    /\ openCalls = {}
    /\ rotations = [d \in Destinations |-> 0]
    /\ cli_options = CliOptions

\* the wall clock advances
Tick ==
    /\ pc # "failed"
    /\ now - StartTime < MaxTicks
    /\ now' = now + 1
    /\ UNCHANGED <<io, pc, stdin_eof, nread, writer, fs, last, routed, openCalls, rotations,
                 cli_options>>

\* the environment stops serving opens and writes (directory not writable, disk error)
IoBreak ==
    /\ pc # "failed"
    /\ io = "ok"
    /\ io' = "fail"
    /\ UNCHANGED <<now, pc, stdin_eof, nread, writer, fs, last, routed, openCalls, rotations,
                 cli_options>>

\* start(), from with_options' result on: "?" ends the process, else the loop
Started(made) ==
    /\ writer' = made.self
    /\ fs' = made.fs
    /\ openCalls' = openCalls \cup made.opened
    /\ pc' = IF made.ok THEN "loop" ELSE "failed"

\* start() up to the loop: FileWriter::with_options(&cli_options).await?
Start ==
    /\ pc = "start"
    /\ Started(with_options(cli_options, now, fs, io))
    /\ UNCHANGED <<now, io, stdin_eof, nread, last, routed, rotations, cli_options>>

\* one turn of the loop, from write's result on: "?" ends the process
Accepted(line, done) ==
    /\ stdin_eof' = (stdin_eof \/ line = <<>> \/ line[Len(line)] # "LF")
    /\ nread' = nread + 1
    /\ writer' = done.self
    /\ fs' = done.fs
    /\ pc' = IF done.ok THEN "loop" ELSE "failed"
    /\ last' = [state |-> IF writer.current_channel_name = None
                          THEN "SELECT" ELSE "PAYLOAD",
                line |-> line, ok |-> done.ok, at |-> now,
                dest |-> done.dest, wrote |-> done.wrote,
                rotated |-> done.rotated]
    /\ routed' = IF done.dest = None THEN routed
                 ELSE [routed EXCEPT ![done.dest[1]] = @ \o line]
    /\ openCalls' = openCalls \cup done.opened
    /\ rotations' = IF done.rotated
                    THEN [rotations EXCEPT ![done.dest[1]] = @ + 1]
                    ELSE rotations

\* one turn of the loop: read_line, writer.write(&line).await?, line.clear()
Accept ==
    /\ pc = "loop"
    /\ nread < MaxLines
    /\ \E line \in (IF stdin_eof THEN {} ELSE Lines) \cup {EofLine} :
          Accepted(line, write(writer, line, now, fs, io))
    /\ UNCHANGED <<now, io, cli_options>>

Next == Tick \/ IoBreak \/ Start \/ Accept

Spec == Init /\ [][Next]_vars

\* A restart: an earlier run of the same command line has left the files of
\* the hour the clock starts in, and of the next, with bytes in them.
OldBytes == <<"o", "LF">>
PriorFiles ==
    {generate_file_path(CliOptions.log_dir, name, StartTime + k * TicksPerHour) :
        name \in {ChanA, ChanR, InaptName}, k \in {0, 1}}

InitRestart ==
    /\ now = StartTime
    /\ io = "ok"
    /\ pc = "start"
    /\ stdin_eof = FALSE
    /\ nread = 0
    /\ writer = NoWriter
    /\ fs = [p \in PriorFiles |-> OldBytes]
    /\ last = NoCall
    /\ routed = [d \in Destinations |-> <<>>]
    /\ openCalls = {}
    /\ rotations = [d \in Destinations |-> 0]
    /\ cli_options = CliOptions

SpecRestart == InitRestart /\ [][Next]_vars

---------------------------------------------------------------------------
(* Vocabulary of the properties *)

\* the configured channel names
Channels == {CliOptions.accepted_log_channels[i] :
                i \in 1..Len(CliOptions.accepted_log_channels)}

\* this step is one call of FileWriter::write
AcceptStep == nread' = nread + 1

\* the bytes of file f before this step (nothing when it did not exist)
Before(f) == IF f \in DOMAIN fs THEN fs[f] ELSE <<>>

\* this step appended exactly bytes to file f and changed no other file
Appended(f, bytes) ==
    /\ DOMAIN fs' = DOMAIN fs \cup {f}
    /\ \A p \in DOMAIN fs' : fs'[p] = IF p = f THEN Before(f) \o bytes ELSE fs[p]

\* the file handle of a destination, once the writer is constructed
Handles == {HandleOf(writer, d) : d \in Destinations}

\* the path of the path-construction rule: {directory}/{channelName}_{stamp}.log
RulePath(channel_name, t) == CliOptions.log_dir \o <<FileComp(channel_name, t)>>

C3_ResetAfterError ==
    (last.state = "PAYLOAD" /\ ~last.ok) => writer.current_channel_name = None

\* C4 (as claimed): every path handed to open_file for a plain (relative)
\* channel name is {log directory}/{name}_{hour-aligned stamp}.log.
C4_PathRule ==
    \A o \in openCalls :
        ~IsAbsolute(o.by) => o.path = RulePath(o.by, get_hourly_aligned_date(o.at))

\* C5 (as claimed): with the environment serving every open and write, a write
\* to a destination made more than an hour after the previous write to it
\* succeeds and goes to another file.
C5_RotationMonotone ==
    [][(AcceptStep /\ io = "ok"
          /\ last.state # "NONE" /\ last.ok /\ last.wrote # None
          /\ last'.dest = last.dest
          /\ now - last.at > TicksPerHour)
        => (last'.ok /\ last'.wrote # None /\ last'.wrote # last.wrote)
      ]_vars

\* the logical name of a destination
NameOf(d) == IF d = None THEN CliOptions.inapt_file_name ELSE d[1]

\* the files of a destination: those named {name}_{stamp}.log; their rotation
\* order is the order of their stamps
FilesOf(d) == {p \in DOMAIN fs : p[Len(p)].name = NameOf(d)}
StampOrder(p) ==
    p[Len(p)].stamp[1] * TicksPerDay + p[Len(p)].stamp[2] * TicksPerHour
        + p[Len(p)].stamp[3]

RECURSIVE Concatenated(_)
Concatenated(files) ==
    IF files = {} THEN <<>>
    ELSE LET first == CHOOSE p \in files : \A q \in files : StampOrder(p) <= StampOrder(q)
         IN  fs[first] \o Concatenated(files \ {first})

\* C6 (as claimed): while the environment serves every open and write, the
\* bytes in a destination's files, in rotation order, are the lines routed to
\* it, in input order.
C6_NoWriteLost ==
    io = "ok" => \A d \in Destinations : Concatenated(FilesOf(d)) = routed[d]

\* the hour a time lies in, counted from the epoch
HourIndex(t) == t \div TicksPerHour

\* C7 (as claimed): a write that succeeds goes to the file whose name carries
\* the hour of the wall clock at the write.
C7_FileOfCurrentHour ==
    (last.state # "NONE" /\ last.ok /\ last.wrote # None /\ last.line # <<>>)
        => LET p == last.wrote[1]
           IN  p[Len(p)].stamp = <<date(last.at), hour(last.at), 0>>

\* C8 (as claimed): the open file of every handle is the file computed from its
\* name and its stored timestamp, and that timestamp is hour-aligned.
C8_HandleInvariant ==
    writer # NoWriter =>
        \A h \in Handles :
            /\ h.last_reopened % TicksPerHour = 0
            /\ h.current_file
                  = generate_file_path(CliOptions.log_dir, h.file_name, h.last_reopened)

\* the time of construction: the first open_file call
CreatedAt == (CHOOSE o \in openCalls : \A q \in openCalls : o.at <= q.at).at

\* C9: a handle that has rotated needs no new file for the rest of that hour,
\* and it has rotated at most once per hour boundary crossed since it was made.
C9_RotationIdempotent ==
    \A d \in Destinations :
        rotations[d] > 0 =>
            /\ HourIndex(now) = HourIndex(HandleOf(writer, d).last_reopened)
                  => ~new_file_needed(HandleOf(writer, d), now)
            /\ rotations[d] <= HourIndex(now) - HourIndex(CreatedAt)

\* C9 witness: the absolute channel rotated in one write, and a later write in
\* the same hour went to the same file without rotating
C9_Witness ==
    /\ rotations[Some(ChanR)] = 1
    /\ last.state = "PAYLOAD" /\ last.ok /\ ~last.rotated
    /\ last.dest = Some(Some(ChanR))
    /\ HourIndex(last.at) = HourIndex(writer.file_handles[ChanR].last_reopened)
    /\ writer.file_handles[ChanR].current_file # writer.file_handles[ChanR].log_dir
    /\ Len(fs[writer.file_handles[ChanR].current_file]) > Len(last.line)

\* C10: in PAYLOAD any line is appended to the pending channel's current file
\* and never becomes the pending channel; after a write that succeeded the slot
\* is empty; and the slot is set only by a selector line read in SELECT.
C10_PayloadAnyLine ==
    [][AcceptStep =>
        /\ writer.current_channel_name # None
              => /\ writer'.current_channel_name \in {None, writer.current_channel_name}
                 /\ last'.ok
                       => /\ writer'.current_channel_name = None
                          /\ Appended(HandleOf(writer', writer.current_channel_name)
                                          .current_file,
                                      last'.line)
        /\ (writer'.current_channel_name # None /\ pc' = "loop")
              => /\ writer.current_channel_name = None
                 /\ writer'.current_channel_name = Some(trim_end(last'.line))
      ]_vars

\* C10 witness: with a pending, a line that names channel /r went to a's file
C10_Witness ==
    /\ last.state = "PAYLOAD" /\ last.ok
    /\ trim_end(last.line) = ChanR
    /\ last.wrote = Some(writer.file_handles[ChanA].current_file)
    /\ fs[writer.file_handles[ChanA].current_file] = last.line
    /\ writer.current_channel_name = None

\* a is a prefix of b
IsPrefix(a, b) == Len(a) <= Len(b) /\ SubSeq(b, 1, Len(a)) = a

\* C11: no step removes bytes: every file stays, and what it held is a prefix
\* of what it holds; a file found with content at create or at rotation keeps
\* it, and new bytes go after it.
C11_AppendNotTruncate ==
    [][\A p \in DOMAIN fs : p \in DOMAIN fs' /\ IsPrefix(fs[p], fs'[p])]_vars

\* C11 witness: a's file of the start hour was there with bytes, was opened by
\* create, and the payload went after the old bytes; the absolute channel
\* rotated onto a file that was there, and its line went after the old bytes
C11_Witness ==
    /\ fs[RulePath(ChanA, StartTime)] = OldBytes \o <<"x", "LF">>
    /\ writer.file_handles[ChanR].current_file # writer.file_handles[ChanR].log_dir
    /\ writer.file_handles[ChanR].current_file \in PriorFiles
    /\ fs[writer.file_handles[ChanR].current_file] = OldBytes \o <<"x", "LF">>

\* C12: once the input has reached its end the loop takes no further turn:
\* no read_line is followed by another call of write, so no file is written
\* any more.
C12_StopsAtEndOfInput ==
    [][stdin_eof => ~AcceptStep]_vars

\* new_file_needed on its own: a handle last reopened at any tick of two days,
\* asked at any tick from then on.
NeedTimes == 0..(2 * TicksPerDay - 1)

HandleReopenedAt(t) == [NoHandle EXCEPT !.file_name = InaptName, !.last_reopened = t]

InitNeed ==
    /\ now \in NeedTimes
    /\ io = "ok"
    /\ pc = "need"
    /\ stdin_eof = FALSE
    /\ nread = 0
    /\ \E t \in NeedTimes :
          /\ t <= now
          /\ writer = [NoWriter EXCEPT !.inapt_file_handle = HandleReopenedAt(t)]
    /\ fs = <<>>
    /\ last = NoCall
    /\ routed = [d \in Destinations |-> <<>>]
    /\ openCalls = {}
    /\ rotations = [d \in Destinations |-> 0]
    /\ cli_options = CliOptions

\* self.new_file_needed(&now), its result kept in last.rotated
NeedAsked ==
    /\ pc = "need"
    /\ pc' = "needed"
    /\ last' = [NoCall EXCEPT !.state = "NEED", !.at = now,
                              !.rotated = new_file_needed(writer.inapt_file_handle, now)]
    /\ UNCHANGED <<now, io, stdin_eof, nread, writer, fs, routed, openCalls, rotations,
                   cli_options>>

NextNeed == NeedAsked

SpecNeed == InitNeed /\ [][NextNeed]_vars

\* C13: for now not before last_reopened, new_file_needed answers what
\* condition (b) alone answers: strictly more than one hour has passed.
C13_ConditionBAlone ==
    last.state = "NEED" =>
        (last.rotated <=> (now - writer.inapt_file_handle.last_reopened > TicksPerHour))

\* C13 witness: condition (a) holds (a later date and a greater hour of day),
\* and the answer is yes
C13_Witness ==
    /\ last.state = "NEED"
    /\ date(now) > date(writer.inapt_file_handle.last_reopened)
    /\ hour(now) > hour(writer.inapt_file_handle.last_reopened)
    /\ last.rotated

\* this step left the handle of destination e, and the file it has open, alone
Untouched(e) ==
    /\ HandleOf(writer', e) = HandleOf(writer, e)
    /\ HandleOf(writer, e).current_file \in DOMAIN fs'
    /\ fs'[HandleOf(writer, e).current_file] = fs[HandleOf(writer, e).current_file]

\* C15: a call of write touches at most one handle: a call that only records
\* a selector changes no handle and no file; a call that writes to a
\* destination leaves the handle and the file of every other destination as
\* they were, and changes or makes no file but the one its own handle has open.
C15_Frame ==
    [][AcceptStep =>
        IF last'.dest = None
        THEN fs' = fs /\ \A e \in Destinations : Untouched(e)
        ELSE /\ \A e \in Destinations \ {last'.dest[1]} : Untouched(e)
             /\ \A p \in DOMAIN fs' :
                   (p \notin DOMAIN fs \/ fs'[p] # fs[p]) =>
                       p = HandleOf(writer', last'.dest[1]).current_file]_vars

\* C15 witness: a payload write rotated the absolute channel and appended to
\* its new file while the rotations of a's handle and of the inapt handle were
\* due
C15_Witness ==
    /\ last.state = "PAYLOAD" /\ last.ok /\ last.rotated
    /\ last.dest = Some(Some(ChanR))
    /\ last.line # <<>>
    /\ new_file_needed(HandleOf(writer, None), last.at)
    /\ new_file_needed(HandleOf(writer, Some(ChanA)), last.at)

\* C16: once the writer is constructed the key set of file_handles never
\* changes, the pending channel, when set, is one of its keys, and a payload
\* write goes to the handle of the pending channel, never to the inapt handle
\* (unwrap_or's alternative is not taken).
C16_PendingIsKey ==
    [][/\ pc = "loop" => DOMAIN writer'.file_handles = DOMAIN writer.file_handles
       /\ writer'.current_channel_name # None =>
              writer'.current_channel_name[1] \in DOMAIN writer'.file_handles
       /\ (AcceptStep /\ writer.current_channel_name # None) =>
              /\ lookup(writer, writer.current_channel_name[1]) = writer.current_channel_name
              /\ last'.dest = Some(writer.current_channel_name)]_vars

\* C16 witness: a selector of the absolute channel was accepted and the
\* payload after it went to that channel's file; nothing went to the inapt handle
C16_Witness ==
    /\ last.state = "PAYLOAD" /\ last.ok
    /\ last.dest = Some(Some(ChanR))
    /\ routed[Some(ChanR)] = <<"x", "LF">>
    /\ routed[None] = <<>>
    /\ last.wrote = Some(writer.file_handles[ChanR].current_file)
    /\ writer.current_channel_name = None

\* C17 (as claimed): a write of a line whose rotation fails to open the new
\* file, the environment refusing the open, appends
\* to no file and leaves the handle (last_reopened, current_file) as it was
\* before the call, so that its rotation is still due.
C17_RotationAtomic ==
    [][(AcceptStep /\ io = "fail" /\ last'.line # <<>> /\ last'.rotated /\ ~last'.ok) =>
          /\ fs' = fs
          /\ HandleOf(writer', last'.dest[1]) = HandleOf(writer, last'.dest[1])
          /\ new_file_needed(HandleOf(writer', last'.dest[1]), now)]_vars

\* Other command lines: a channel in a subdirectory that is not there, an
\* inapt file in such a subdirectory, and an inapt file named as a channel.
ChanSub == <<"s", "/", "a">>
InaptSub == <<"s", "/", "i">>
Configs ==
    {CliOptions,
     [log_dir |-> LogDir, accepted_log_channels |-> <<ChanA, ChanSub>>,
      inapt_file_name |-> InaptName],
     [log_dir |-> LogDir, accepted_log_channels |-> <<ChanA>>,
      inapt_file_name |-> InaptSub],
     [log_dir |-> LogDir, accepted_log_channels |-> <<ChanA>>,
      inapt_file_name |-> ChanA]}

InitCfg ==
    /\ cli_options \in Configs
    /\ now = StartTime
    /\ io = "ok"
    /\ pc = "start"
    /\ stdin_eof = FALSE
    /\ nread = 0
    /\ writer = NoWriter
    /\ fs = <<>>
    /\ last = NoCall
    /\ routed = [d \in DestinationsOf(cli_options) |-> <<>>]
    /\ openCalls = {}
    /\ rotations = [d \in DestinationsOf(cli_options) |-> 0]

SpecCfg == InitCfg /\ [][Next]_vars

\* the names with_options creates a handle for
NamesOf(opts) ==
    {opts.accepted_log_channels[i] : i \in 1..Len(opts.accepted_log_channels)}
        \cup {opts.inapt_file_name}

\* C14: when the create of any channel's handle or of the inapt handle fails,
\* with_options fails as a whole: no writer is built, the process ends, and
\* no line has been or will be read.
C14_FailFast ==
    [][/\ (pc = "start" /\ pc' # "start"
           /\ \E name \in NamesOf(cli_options) :
                 ~create(cli_options.log_dir, name, now, fs, io).ok)
          => (pc' = "failed" /\ writer' = NoWriter /\ nread' = 0)
       /\ (pc = "failed" /\ writer = NoWriter) => ~AcceptStep]_vars

\* C14 witness: the create of the first channel succeeded and made its file,
\* a later create failed, and the process has ended with no writer and no line read
C14_Witness ==
    /\ pc = "failed" /\ writer = NoWriter /\ nread = 0
    /\ io = "ok"
    /\ DOMAIN fs # {}
    /\ \E o \in openCalls : o.path \notin DOMAIN fs

\* C18 (as claimed): for every command line with_options accepts, the handles
\* the writer holds have pairwise distinct files open.
C18_DistinctFiles ==
    pc = "loop" =>
        \A d, e \in DestinationsOf(cli_options) :
            d # e => HandleOf(writer, d).current_file # HandleOf(writer, e).current_file

====
